---- MODULE Spec2Model ----
(***************************************************************************)
(* Synchronisation core of the collaborative whiteboard client             *)
(* (components/Whiteboard): the per-client object store (the fabric        *)
(* canvas), the echo suppression gate canvas._isRemote, the socket         *)
(* handlers with their asynchronous reconstructions, Change Capture        *)
(* (emitAdded / emitModified / emitRemoved), the toolbar edits and the     *)
(* undo / redo / clear history.  The relay server is not part of the       *)
(* client source; it is modelled as a FIFO broadcast to the other members  *)
(* of the room, with the join decision and the Snapshot transfer of the    *)
(* room's Access Controller.                                               *)
(*                                                                         *)
(* Each action is one JavaScript task: a click handler, a socket handler   *)
(* up to its first await, the continuation of an await, or the completion  *)
(* callback of canvas.loadFromJSON.  A setHistory / setRedoStack call and  *)
(* the effect that copies the new state into historyRef / redoStackRef     *)
(* (lines 31-35) are taken as one commit, part of the task that made it.   *)
(***************************************************************************)
EXTENDS Integers, Sequences, FiniteSets, TLC

\* ---------------------------------------------------------------- bounds
MaxActions == 2     \* user actions (edits and toolbar clicks) in one run
MaxIds == 2         \* size of the pool uuidv4() draws from

Clients == {"A", "B"}
Ids == 1..MaxIds
NoId == 0
KnownTypes == {"rect", "circle", "i-text", "path"}

NoObj == [id |-> NoId, type |-> "none", ver |-> 0]

VARIABLES
    store,      \* store[c]: canvas.getObjects(), the ordered object collection
    gate,       \* gate[c]: canvas._isRemote
    pending,    \* pending[c]: asynchronous work started and not yet finished
    net,        \* net[c]: messages relayed towards client c, not yet handled
    history,    \* history[c] (and historyRef.current)
    redoStack,  \* redoStack[c] (and redoStackRef.current)
    used,       \* identifiers uuidv4() has already returned
    session,    \* session[c]: the password and role props of c's join-room and
                \* what the room's Access Controller decided on it
    acts,       \* number of user actions so far
    law,        \* observer: the edits, undos and redos of a client that has, since a
                \* fresh canvas, only edited, then only undone, then only redone
    lastAct     \* observer: the task that ran last and what it fired

vars == <<store, gate, pending, net, history, redoStack, used, session, acts, law, lastAct>>

\* ---------------------------------------------------------------- helpers
RemoveAt(s, k) == SubSeq(s, 1, k - 1) \o SubSeq(s, k + 1, Len(s))

IdsOf(s) == {s[k].id : k \in 1..Len(s)}

Count(s, i) == Cardinality({k \in 1..Len(s) : s[k].id = i})

\* canvas.getObjects().find(o => o.id === id): index of the first match, 0 if none
FindIndex(s, i) ==
    IF \E k \in 1..Len(s) : s[k].id = i
    THEN CHOOSE k \in 1..Len(s) : s[k].id = i /\ \A j \in 1..(k - 1) : s[j].id # i
    ELSE 0

\* target.toObject(['id']): the serialised object, identifier included
toObject(o) == [type |-> o.type, id |-> o.id, ver |-> o.ver]

\* klass.fromObject(obj): the live object rebuilt from its serialised form
fromObject(obj) == [id |-> obj.id, type |-> obj.type, ver |-> obj.ver]

\* canvas.toJSON(): the serialised collection; no custom property is requested,
\* so the identifiers are not part of a Snapshot
toJSON(s) == [k \in 1..Len(s) |-> [type |-> s[k].type, id |-> NoId, ver |-> s[k].ver]]

EmptySnapshot == toJSON(<<>>)

\* the messages a client emits; the fields a message does not carry are blank
\* the rooms a Whiteboard can be mounted on; NoRoom: no roomId written yet
Rooms == {"R1", "R2"}
NoRoom == "-"

Msg(op, obj, i, a, snap) ==
    [op |-> op, obj |-> obj, id |-> i, action |-> a, snap |-> snap, roomId |-> NoRoom]

\* { roomId, ... }: the payloads that have no roomId yet get r
Stamp(r, msgs) ==
    [k \in 1..Len(msgs) |-> IF msgs[k].roomId = NoRoom THEN [msgs[k] EXCEPT !.roomId = r] ELSE msgs[k]]

AddedMsg(o) == Msg("object:added", toObject(o), NoId, "", <<>>)
ModifiedMsg(o) == Msg("object:modified", toObject(o), NoId, "", <<>>)
RemovedMsg(i) == Msg("object:removed", NoObj, i, "", <<>>)
ActionMsg(a) == Msg("canvas-action", NoObj, NoId, a, <<>>)

\* the messages the server sends to a joining connection
DrawingMsg(data) == Msg("drawing", NoObj, NoId, "", data)
DeniedMsg == Msg("access-denied", NoObj, NoId, "", <<>>)

\* ---------------------------------------------------------------- Change Capture
\* (variant: emitAdded without the gate test)
emitAdded_nogate(g, o) == <<AddedMsg(o)>>

\* emitAdded / emitModified / emitRemoved: nothing while the gate g is set
emitAdded(g, o) == IF g THEN <<>> ELSE <<AddedMsg(o)>>

emitModified(g, o) == IF g THEN <<>> ELSE <<ModifiedMsg(o)>>

emitRemoved(g, o) == IF g THEN <<>> ELSE <<RemovedMsg(o.id)>>

\* what one notification of the rendering surface did: the gate it saw and
\* the number of Operations Change Capture emitted for it
Fired(ev, g, o, msgs) == [ev |-> ev, id |-> o.id, type |-> o.type, gate |-> g, sent |-> Len(msgs)]

RECURSIVE emitRemovedAll(_, _)
emitRemovedAll(g, s) ==
    IF s = <<>> THEN <<>> ELSE emitRemoved(g, Head(s)) \o emitRemovedAll(g, Tail(s))

RECURSIVE emitAddedAll(_, _)
emitAddedAll(g, s) ==
    IF s = <<>> THEN <<>> ELSE emitAdded(g, Head(s)) \o emitAddedAll(g, Tail(s))

FiredAll(ev, g, s) == {Fired(ev, g, s[k], IF ev = "added" THEN emitAdded(g, s[k]) ELSE emitRemoved(g, s[k])) : k \in 1..Len(s)}

Act(c, name, i, note, fired) == [c |-> c, name |-> name, id |-> i, note |-> note, fired |-> fired]

\* ---------------------------------------------------------------- observer of the stack law
Void == [ok |-> FALSE, n |-> 0, u |-> 0, r |-> 0, docs |-> <<>>]

LoadPending(c) == \E k \in 1..Len(pending[c]) : pending[c][k].kind \in {"undo", "redo"}

LawEdit(c, doc) ==
    IF law[c].ok /\ law[c].u = 0 /\ law[c].r = 0
    THEN [law[c] EXCEPT !.n = @ + 1, !.docs = Append(@, doc)]
    ELSE Void

LawUndo(c) ==
    IF law[c].ok /\ law[c].r = 0 /\ law[c].u < law[c].n /\ ~LoadPending(c)
    THEN [law[c] EXCEPT !.u = @ + 1]
    ELSE Void

LawRedo(c) ==
    IF law[c].ok /\ law[c].r < law[c].u /\ ~LoadPending(c)
    THEN [law[c] EXCEPT !.r = @ + 1]
    ELSE Void

\* ---------------------------------------------------------------- initial state
\* The stacks a client with an empty canvas can hold when a run starts: those
\* of a fresh canvas (line 51), after one Clear, and after one Clear and one
\* completed Undo.
StartStacks ==
    { [history |-> <<EmptySnapshot>>, redoStack |-> <<>>],
      [history |-> <<EmptySnapshot, EmptySnapshot>>, redoStack |-> <<>>],
      [history |-> <<EmptySnapshot>>, redoStack |-> <<EmptySnapshot>>] }

Fresh(st) == st.history = <<EmptySnapshot>> /\ st.redoStack = <<>>

\* the room of the run is private; its stored password
RoomPassword == "secret"

\* the password and role props a Whiteboard can be mounted with (role
\* defaults to editor)
Passwords == {RoomPassword, "guess"}
Roles == {"editor", "viewer"}

\* a client is mounted on room R1; captured is the roomId the mouse:down
\* handler of the eraser closed over when its effect last ran, NoRoom while
\* the effect will run again before the next eraser click
Session(status, password, role) ==
    [status |-> status, password |-> password, role |-> role, roomId |-> "R1", captured |-> NoRoom]

\* the canvases after construction (lines 38-57)
InitCanvas ==
    /\ store = [c \in Clients |-> <<>>]
    /\ gate = [c \in Clients |-> FALSE]
    /\ pending = [c \in Clients |-> <<>>]
    /\ net = [c \in Clients |-> <<>>]
    /\ \E start \in [Clients -> StartStacks] :
          /\ history = [c \in Clients |-> start[c].history]
          /\ redoStack = [c \in Clients |-> start[c].redoStack]
          /\ law = [c \in Clients |->
                      IF Fresh(start[c])
                      THEN [ok |-> TRUE, n |-> 0, u |-> 0, r |-> 0, docs |-> <<<<>>>>]
                      ELSE Void]
    /\ used = {}
    /\ acts = 0
    /\ lastAct = Act("-", "init", NoId, "", {})

\* every client has joined the room as an editor
Init ==
    /\ InitCanvas
    /\ session = [c \in Clients |-> Session("accepted", RoomPassword, "editor")]

\* A is alone on room R1, where it has drawn one rectangle; B is on room R2
InitScope ==
    /\ store = [c \in Clients |-> IF c = "A" THEN <<[id |-> 1, type |-> "rect", ver |-> 0]>> ELSE <<>>]
    /\ gate = [c \in Clients |-> FALSE]
    /\ pending = [c \in Clients |-> <<>>]
    /\ net = [c \in Clients |-> <<>>]
    /\ history = [c \in Clients |-> <<EmptySnapshot>>]
    /\ redoStack = [c \in Clients |-> <<>>]
    /\ law = [c \in Clients |-> Void]
    /\ used = {1}
    /\ acts = 0
    /\ lastAct = Act("-", "init", NoId, "", {})
    /\ session = [c \in Clients |->
                    [Session("accepted", RoomPassword, "editor") EXCEPT
                        !.roomId = IF c = "A" THEN "R1" ELSE "R2"]]

\* A has created the room and joined it as an editor; B has just been
\* mounted on a fresh canvas with some password and role and has sent its
\* join-room (lines 187-193), not yet decided
InitRoom ==
    /\ InitCanvas
    /\ \A c \in Clients : history[c] = <<EmptySnapshot>> /\ redoStack[c] = <<>>
    /\ \E p \in Passwords, r \in Roles :
          session = [c \in Clients |-> IF c = "A" THEN Session("accepted", RoomPassword, "editor")
                                       ELSE Session("pending", p, r)]

\* ---------------------------------------------------------------- the relay
\* the broadcast group of the room
Members == {c \in Clients : session[c].status = "accepted"}

\* (variant: the role is not looked at on ingress)
Send_anyRole(q, c, msgs) ==
    [d \in Clients |->
        IF d = c \/ c \notin Members \/ d \notin Members \/ session[d].roomId # session[c].roomId
        THEN q[d] ELSE q[d] \o msgs]

\* socketRef.current.emit(...): the server forwards each message of a
\* member's connection, in order, to every other member of the room the
\* connection has joined; what a viewer sends is rejected on ingress
Send(q, c, msgs) ==
    [d \in Clients |->
        IF \/ d = c \/ c \notin Members \/ d \notin Members
           \/ session[d].roomId # session[c].roomId
           \/ session[c].role = "viewer"
        THEN q[d] ELSE q[d] \o msgs]

\* an emit of c: the payloads are written with the roomId of the current
\* render unless the emitter has already written one
Broadcast(c, msgs) == Send(net, c, Stamp(session[c].roomId, msgs))

\* the same, by the handler of the oldest message towards c
Reply(c, msgs) == Send([net EXCEPT ![c] = Tail(@)], c, Stamp(session[c].roomId, msgs))

\* ---------------------------------------------------------------- local edits
\* uuidv4(): an identifier never returned before (the smallest unused one:
\* identifiers are interchangeable)
uuidv4 == CHOOSE i \in Ids \ used : \A j \in Ids \ used : i <= j

\* (variant: the surface's object:added reaches emitAdded before assignId)
assignId_late(o, i) == o

\* assignId: an added object without an identifier gets a new one
assignId(o, i) == IF o.id = NoId THEN [o EXCEPT !.id = i] ELSE o

\* handleToolChange / setTool: the eraser effect is cleaned up and will run
\* again, closing over the roomId of that render, when the eraser is selected
ToolChanged(c) == [session EXCEPT ![c].captured = NoRoom]

\* the roomId in the closure of the eraser's mouse:down handler
EraserRoom(c) == IF session[c].captured = NoRoom THEN session[c].roomId ELSE session[c].captured

\* A toolbar shape: build the object with a new identifier, canvas.add it
\* (which notifies emitAdded), then emit object:added.  addCircle and
\* handleTextClick run the same steps with the type tags "circle" and "i-text".
AddShape(c, type, name) ==
    /\ acts < MaxActions
    /\ Ids \ used # {}
    /\ LET o == [id |-> uuidv4, type |-> type, ver |-> 0]
           cap == emitAdded(gate[c], o)
       IN /\ store' = [store EXCEPT ![c] = Append(@, o)]
          /\ net' = Broadcast(c, cap \o <<AddedMsg(o)>>)
          /\ used' = used \cup {o.id}
          /\ law' = [law EXCEPT ![c] = LawEdit(c, store'[c])]
          /\ lastAct' = Act(c, name, o.id, "edit", {Fired("added", gate[c], o, cap)})
    /\ session' = ToolChanged(c)
    /\ acts' = acts + 1
    /\ UNCHANGED <<gate, pending, history, redoStack>>

addRectangle(c) == AddShape(c, "rect", "addRectangle")

\* a free-drawing stroke: the brush adds a path without identifier; assignId
\* names it and emitAdded is the only emitter
DrawPath(c) ==
    /\ acts < MaxActions
    /\ Ids \ used # {}
    /\ LET o == assignId([id |-> NoId, type |-> "path", ver |-> 0], uuidv4)
           cap == emitAdded(gate[c], o)
       IN /\ store' = [store EXCEPT ![c] = Append(@, o)]
          /\ net' = Broadcast(c, cap)
          /\ used' = used \cup {o.id}
          /\ law' = [law EXCEPT ![c] = LawEdit(c, store'[c])]
          /\ lastAct' = Act(c, "drawPath", o.id, "edit", {Fired("added", gate[c], o, cap)})
    /\ session' = ToolChanged(c)
    /\ acts' = acts + 1
    /\ UNCHANGED <<gate, pending, history, redoStack>>

\* the user moves or restyles an object of the own canvas: the surface
\* notifies object:modified
ModifyObject(c) ==
    /\ acts < MaxActions
    /\ \E k \in 1..Len(store[c]) :
         LET o == [store[c][k] EXCEPT !.ver = 1 - @]
             cap == emitModified(gate[c], o)
         IN /\ store' = [store EXCEPT ![c][k] = o]
            /\ net' = Broadcast(c, cap)
            /\ law' = [law EXCEPT ![c] = LawEdit(c, store'[c])]
            /\ lastAct' = Act(c, "modifyObject", o.id, "edit", {Fired("modified", gate[c], o, cap)})
    /\ session' = ToolChanged(c)
    /\ acts' = acts + 1
    /\ UNCHANGED <<gate, pending, history, redoStack, used>>

\* handleEraserClick on a target: emit object:removed with the roomId of its
\* closure, then canvas.remove (which notifies emitRemoved)
handleEraserClick(c) ==
    /\ acts < MaxActions
    /\ \E k \in 1..Len(store[c]) :
         LET target == store[c][k]
             cap == emitRemoved(gate[c], target)
         IN /\ net' = Broadcast(c, Stamp(EraserRoom(c), <<RemovedMsg(target.id)>>) \o cap)
            /\ store' = [store EXCEPT ![c] = RemoveAt(@, k)]
            /\ law' = [law EXCEPT ![c] = LawEdit(c, store'[c])]
            /\ lastAct' = Act(c, "handleEraserClick", target.id, "edit", {Fired("removed", gate[c], target, cap)})
    /\ acts' = acts + 1
    /\ UNCHANGED <<session, gate, pending, history, redoStack, used>>

\* ---------------------------------------------------------------- socket handlers
Task(kind, obj, snap, cur) == [kind |-> kind, obj |-> obj, snap |-> snap, cur |-> cur]

\* klass.fromObject(obj) rejects a payload that is not a well-formed object
Rejects(obj) == obj.ver \notin {0, 1}

\* (variant: the gate is reset only after a successful reconstruction)
FinallyGate_successOnly(g, outcome) == IF outcome \in {"unknown", "threw"} THEN g ELSE FALSE

\* lines 217-219: finally { canvas._isRemote = false }, whatever the outcome
FinallyGate(g, outcome) == FALSE

\* socket.on('object:added'), up to the await: set the gate, look the class
\* up, start the reconstruction (an unknown type tag returns through finally)
OnObjectAdded(c) ==
    /\ net[c] # <<>>
    /\ Head(net[c]).op = "object:added"
    /\ LET obj == Head(net[c]).obj
       IN IF obj.type \in KnownTypes
          THEN /\ gate' = [gate EXCEPT ![c] = TRUE]
               /\ pending' = [pending EXCEPT ![c] = Append(@, Task("fromObject", obj, <<>>, <<>>))]
               /\ lastAct' = Act(c, "onObjectAdded", obj.id, "await", {})
          ELSE /\ gate' = [gate EXCEPT ![c] = FinallyGate(TRUE, "unknown")]
               /\ pending' = pending
               /\ lastAct' = Act(c, "onObjectAdded", obj.id, "unknown", {})
    /\ net' = [net EXCEPT ![c] = Tail(@)]
    /\ law' = [law EXCEPT ![c] = Void]
    /\ UNCHANGED <<session, store, history, redoStack, used, acts>>

\* (variant: add without looking for the identifier)
AddAlways(s, o) == Append(s, o)

\* lines 211-213: add the rebuilt object unless an object has its identifier
AddIfAbsent(s, o) == IF \E k \in 1..Len(s) : s[k].id = o.id THEN s ELSE Append(s, o)

\* (variant: the handler sends on every object it has rebuilt)
Echo_always(g, grew, o) == <<AddedMsg(o)>>

\* what the handler's canvas.add makes Change Capture emit: nothing when the
\* object was not added, else what emitAdded emits under the gate g
Echo(g, grew, o) == IF grew THEN emitAdded(g, o) ELSE <<>>

\* socket.on('object:added'), after the await: the reconstruction k finished;
\* canvas.add notifies emitAdded under the gate as it is now; a rejected
\* reconstruction goes through catch; finally resets the gate
OnObjectAddedResume(c, k) ==
    /\ k \in 1..Len(pending[c])
    /\ pending[c][k].kind = "fromObject"
    /\ LET threw == Rejects(pending[c][k].obj)
           fabricObj == fromObject(pending[c][k].obj)
           new == IF threw THEN store[c] ELSE AddIfAbsent(store[c], fabricObj)
           grew == Len(new) > Len(store[c])
           cap == Echo(gate[c], grew, fabricObj)
           outcome == IF threw THEN "threw" ELSE IF grew THEN "new" ELSE "duplicate"
       IN /\ store' = [store EXCEPT ![c] = new]
          /\ net' = Broadcast(c, cap)
          /\ lastAct' = Act(c, "onObjectAddedResume", fabricObj.id, outcome,
                            IF grew THEN {Fired("added", gate[c], fabricObj, cap)} ELSE {})
          /\ gate' = [gate EXCEPT ![c] = FinallyGate(@, outcome)]
    /\ pending' = [pending EXCEPT ![c] = RemoveAt(@, k)]
    /\ law' = [law EXCEPT ![c] = Void]
    /\ UNCHANGED <<session, history, redoStack, used, acts>>

\* (variant: a modify for an unknown identifier inserts the object)
ApplyModifyUpsert(s, obj) ==
    IF FindIndex(s, obj.id) = 0 THEN Append(s, fromObject(obj))
    ELSE [s EXCEPT ![FindIndex(s, obj.id)].ver = obj.ver]

\* lines 228-233: merge the properties onto the first object with the identifier
ApplyModify(s, obj) ==
    IF FindIndex(s, obj.id) = 0 THEN s
    ELSE [s EXCEPT ![FindIndex(s, obj.id)].ver = obj.ver]

\* socket.on('object:modified')
OnObjectModified(c) ==
    /\ net[c] # <<>>
    /\ Head(net[c]).op = "object:modified"
    /\ LET obj == Head(net[c]).obj
       IN /\ store' = [store EXCEPT ![c] = ApplyModify(@, obj)]
          /\ lastAct' = Act(c, "onObjectModified", obj.id,
                            IF FindIndex(store[c], obj.id) = 0 THEN "absent" ELSE "found", {})
    /\ gate' = [gate EXCEPT ![c] = FALSE]
    /\ net' = [net EXCEPT ![c] = Tail(@)]
    /\ law' = [law EXCEPT ![c] = Void]
    /\ UNCHANGED <<session, pending, history, redoStack, used, acts>>

\* (variant: the lookup never matches)
ApplyRemove_keep(s, i) == s

\* lines 240-243: remove the first object with the identifier, if any
ApplyRemove(s, i) == IF FindIndex(s, i) = 0 THEN s ELSE RemoveAt(s, FindIndex(s, i))

\* socket.on('object:removed'): canvas.remove notifies emitRemoved with the gate set
OnObjectRemoved(c) ==
    /\ net[c] # <<>>
    /\ Head(net[c]).op = "object:removed"
    /\ LET i == Head(net[c]).id
           k == FindIndex(store[c], i)
           cap == IF k = 0 THEN <<>> ELSE emitRemoved(TRUE, store[c][k])
       IN /\ store' = [store EXCEPT ![c] = ApplyRemove(@, i)]
          /\ net' = Reply(c, cap)
          /\ lastAct' = Act(c, "onObjectRemoved", i,
                            IF k = 0 THEN "absent" ELSE "found",
                            IF k = 0 THEN {} ELSE {Fired("removed", TRUE, store[c][k], cap)})
    /\ gate' = [gate EXCEPT ![c] = FALSE]
    /\ law' = [law EXCEPT ![c] = Void]
    /\ UNCHANGED <<session, pending, history, redoStack, used, acts>>

\* the roomId prop changes to another room, with the eraser selected or not:
\* the socket effect is cleaned up and runs again (the old connection, with
\* what was on its way, is dropped; join-room is sent for the new room), and
\* the Change Capture effect runs again; the eraser effect does not
ChangeRoom(c) ==
    /\ acts < MaxActions
    /\ \E r \in Rooms \ {session[c].roomId}, erasing \in BOOLEAN :
         /\ session' = [session EXCEPT ![c].roomId = r,
                                       ![c].status = "pending",
                                       ![c].captured = IF erasing THEN EraserRoom(c) ELSE NoRoom]
         /\ lastAct' = Act(c, "changeRoom", NoId, r, {})
    /\ net' = [net EXCEPT ![c] = <<>>]
    /\ acts' = acts + 1
    /\ UNCHANGED <<store, gate, pending, history, redoStack, used, law>>

\* the events the client registers a listener for (lines 195-254)
HandledOps == {"room-joined", "access-denied", "object:added", "object:modified",
               "object:removed", "drawing"}

\* a message of an event without listener is discarded by the socket
Unhandled(c) ==
    /\ net[c] # <<>>
    /\ Head(net[c]).op \notin HandledOps
    /\ net' = [net EXCEPT ![c] = Tail(@)]
    /\ lastAct' = Act(c, "unhandled", NoId, Head(net[c]).action, {})
    /\ UNCHANGED <<session, store, gate, pending, history, redoStack, used, acts, law>>

\* what a participant of the room whose client is not one of Clients can
\* send: a command, an object of a type the registry does not know, an
\* object whose payload the reconstruction rejects
PeerMessages ==
    {ActionMsg(a) : a \in {"undo", "redo", "clear"}}
        \cup {AddedMsg([id |-> NoId, type |-> "video", ver |-> 0]),
              AddedMsg([id |-> NoId, type |-> "rect", ver |-> -1])}

\* such a participant sends m; the server forwards it to every member
PeerSends(m) ==
    /\ acts < MaxActions
    /\ net' = [d \in Clients |-> IF d \in Members THEN Append(net[d], m) ELSE net[d]]
    /\ lastAct' = Act("-", "peerSends", NoId, m.op, {})
    /\ acts' = acts + 1
    /\ UNCHANGED <<session, store, gate, pending, history, redoStack, used, law>>

\* ---------------------------------------------------------------- history
\* canvas.loadFromJSON(snapshot): the objects of the Snapshot, each named by
\* assignId as it is added
RECURSIVE Revive(_, _)
Revive(snap, u) ==
    IF snap = <<>> THEN <<>>
    ELSE LET i == CHOOSE x \in Ids \ u : \A y \in Ids \ u : x <= y
             o == assignId([id |-> Head(snap).id, type |-> Head(snap).type, ver |-> Head(snap).ver], i)
         IN <<o>> \o Revive(Tail(snap), u \cup {o.id})

\* historyRef.current.slice(0, -1)
DropLast(h) == SubSeq(h, 1, Len(h) - 1)

\* redoStackRef.current.slice(1)
DropFirst(r) == SubSeq(r, 2, Len(r))

\* array[k - 1]: an index outside the array reads undefined (no Snapshot)
At(s, k) == IF k \in 1..Len(s) THEN s[k] ELSE <<>>

\* line 299: if (historyRef.current.length > 1)
CanUndo(h) == Len(h) > 1

\* (variant: handleRedo without its test)
CanRedo_always(r) == TRUE

\* line 329: if (redoStackRef.current.length > 0)
CanRedo(r) == Len(r) > 0

\* handleUndo(remote): with more than one Snapshot, set the gate and start
\* loading the Snapshot below the newest; send the command unless remote
handleUndo(c, remote) ==
    /\ IF CanUndo(history[c])
       THEN /\ gate' = [gate EXCEPT ![c] = TRUE]
            /\ pending' = [pending EXCEPT ![c] =
                              Append(@, Task("undo", NoObj, At(history[c], Len(history[c]) - 1),
                                             At(history[c], Len(history[c]))))]
       ELSE UNCHANGED <<gate, pending>>
    /\ net' = Broadcast(c, IF remote THEN <<>> ELSE <<ActionMsg("undo")>>)
    /\ lastAct' = Act(c, "handleUndo", NoId, IF CanUndo(history[c]) THEN "load" ELSE "guarded", {})
    /\ UNCHANGED <<session, store, history, redoStack, used>>

\* the Undo button (enabled while history.length > 1); onClick passes the
\* click event as the handler's argument
ClickUndo(c) ==
    /\ acts < MaxActions
    /\ Len(history[c]) > 1
    /\ handleUndo(c, TRUE)
    /\ law' = [law EXCEPT ![c] = LawUndo(c)]
    /\ acts' = acts + 1

\* lines 310-314: the stacks after an undo has loaded
UndoStacks(h, r, cur) == [history |-> DropLast(h), redoStack |-> <<cur>> \o r]

\* lines 338-342: the stacks after a redo has loaded
RedoStacks(h, r, next) == [history |-> Append(h, next), redoStack |-> DropFirst(r)]

\* (variant: the load adds the Snapshot's objects to the ones held)
LoadInto_keep(old, revived) == old \o revived

\* canvas.loadFromJSON: the objects held are dropped, the Snapshot's are added
LoadInto(old, revived) == revived

\* the completion callback of loadFromJSON in handleUndo / handleRedo: the
\* store is replaced (clear, then add, notifying Change Capture under the gate
\* as it is now), the stacks are updated and the gate is reset
Loaded(c, k, name) ==
    /\ k \in 1..Len(pending[c])
    /\ pending[c][k].kind = name
    /\ LET t == pending[c][k]
           revived == Revive(t.snap, used)
           cap == emitRemovedAll(gate[c], store[c]) \o emitAddedAll(gate[c], revived)
           st == IF name = "undo" THEN UndoStacks(history[c], redoStack[c], t.cur)
                 ELSE RedoStacks(history[c], redoStack[c], t.snap)
       IN /\ store' = [store EXCEPT ![c] = LoadInto(@, revived)]
          /\ used' = used \cup IdsOf(revived)
          /\ net' = Broadcast(c, cap)
          /\ history' = [history EXCEPT ![c] = st.history]
          /\ redoStack' = [redoStack EXCEPT ![c] = st.redoStack]
          /\ lastAct' = Act(c, name \o "Loaded", NoId, "",
                            FiredAll("removed", gate[c], store[c]) \cup FiredAll("added", gate[c], revived))
    /\ gate' = [gate EXCEPT ![c] = FALSE]
    /\ pending' = [pending EXCEPT ![c] = RemoveAt(@, k)]
    /\ UNCHANGED <<session, acts, law>>

UndoLoaded(c, k) == Loaded(c, k, "undo")

RedoLoaded(c, k) == Loaded(c, k, "redo")

\* handleRedo(remote)
handleRedo(c, remote) ==
    /\ IF CanRedo(redoStack[c])
       THEN /\ gate' = [gate EXCEPT ![c] = TRUE]
            /\ pending' = [pending EXCEPT ![c] =
                              Append(@, Task("redo", NoObj, At(redoStack[c], 1), At(redoStack[c], 1)))]
       ELSE UNCHANGED <<gate, pending>>
    /\ net' = Broadcast(c, IF remote THEN <<>> ELSE <<ActionMsg("redo")>>)
    /\ lastAct' = Act(c, "handleRedo", NoId, IF CanRedo(redoStack[c]) THEN "load" ELSE "guarded", {})
    /\ UNCHANGED <<session, store, history, redoStack, used>>

\* the Redo button (enabled while redoStack is not empty)
ClickRedo(c) ==
    /\ acts < MaxActions
    /\ Len(redoStack[c]) > 0
    /\ handleRedo(c, TRUE)
    /\ law' = [law EXCEPT ![c] = LawRedo(c)]
    /\ acts' = acts + 1

\* handleUndo / handleRedo called in whatever state the client is in, with or
\* without the remote argument: the handler's own test decides
CallUndo(c) ==
    /\ acts < MaxActions
    /\ \E remote \in BOOLEAN : handleUndo(c, remote)
    /\ law' = [law EXCEPT ![c] = Void]
    /\ acts' = acts + 1

CallRedo(c) ==
    /\ acts < MaxActions
    /\ \E remote \in BOOLEAN : handleRedo(c, remote)
    /\ law' = [law EXCEPT ![c] = Void]
    /\ acts' = acts + 1

\* (variant: clear leaves the redo stack alone)
ClearStacks_keepRedo(h, r, cleared) == [history |-> Append(h, cleared), redoStack |-> r]

\* lines 365-369: the stacks after a clear
ClearStacks(h, r, cleared) == [history |-> Append(h, cleared), redoStack |-> <<>>]

\* handleClear(remote): canvas.clear() removes every object (notifying
\* emitRemoved; the gate is not touched), the cleared state is appended to
\* history and redo is reset; send the command unless remote
handleClear(c, remote) ==
    /\ LET cap == emitRemovedAll(gate[c], store[c])
           cleared == <<>>
           st == ClearStacks(history[c], redoStack[c], toJSON(cleared))
       IN /\ store' = [store EXCEPT ![c] = cleared]
          /\ history' = [history EXCEPT ![c] = st.history]
          /\ redoStack' = [redoStack EXCEPT ![c] = st.redoStack]
          /\ net' = Broadcast(c, cap \o (IF remote THEN <<>> ELSE <<ActionMsg("clear")>>))
          /\ lastAct' = Act(c, "handleClear", NoId,
                            IF redoStack[c] # <<>> THEN "redo-dropped" ELSE "",
                            FiredAll("removed", gate[c], store[c]))
    /\ UNCHANGED <<session, gate, pending, used>>

\* the Clear button
ClickClear(c) ==
    /\ acts < MaxActions
    /\ handleClear(c, TRUE)
    /\ law' = [law EXCEPT ![c] = Void]
    /\ acts' = acts + 1

\* ---------------------------------------------------------------- joining
\* (variant: every join-room is accepted)
Admit_any(pw) == TRUE

\* the Access Controller accepts a join-room iff the password supplied is the
\* room's
Admit(pw) == pw = RoomPassword

\* a Snapshot as the room transfers it: every object with its identifier
SnapshotOf(s) == [k \in 1..Len(s) |-> toObject(s[k])]

\* the room's document at the moment of transfer, as a member other than c
\* holds it (empty when c is the first)
RoomSnapshots(c) ==
    LET others == {d \in Members \ {c} : session[d].roomId = session[c].roomId}
    IN IF others = {} THEN {SnapshotOf(<<>>)} ELSE {SnapshotOf(store[d]) : d \in others}

\* the server decides the join-room of c: accepted, c becomes a member and is
\* sent the room's Snapshot; rejected, c is sent access-denied
ServerJoin(c) ==
    /\ session[c].status = "pending"
    /\ IF Admit(session[c].password)
       THEN /\ session' = [session EXCEPT ![c].status = "accepted"]
            /\ \E data \in RoomSnapshots(c) :
                  net' = [net EXCEPT ![c] = Append(@, DrawingMsg(data))]
       ELSE /\ session' = [session EXCEPT ![c].status = "rejected"]
            /\ net' = [net EXCEPT ![c] = Append(@, DeniedMsg)]
    /\ lastAct' = Act(c, "serverJoin", NoId, session'[c].status, {})
    /\ UNCHANGED <<store, gate, pending, history, redoStack, used, acts, law>>

\* socket.on('access-denied'): alert(msg)
OnAccessDenied(c) ==
    /\ net[c] # <<>>
    /\ Head(net[c]).op = "access-denied"
    /\ net' = [net EXCEPT ![c] = Tail(@)]
    /\ lastAct' = Act(c, "onAccessDenied", NoId, "alert", {})
    /\ UNCHANGED <<session, store, gate, pending, history, redoStack, used, acts, law>>

\* socket.on('drawing'): set the gate and start loading the Snapshot
OnDrawing(c) ==
    /\ net[c] # <<>>
    /\ Head(net[c]).op = "drawing"
    /\ gate' = [gate EXCEPT ![c] = TRUE]
    /\ pending' = [pending EXCEPT ![c] = Append(@, Task("drawing", NoObj, Head(net[c]).snap, <<>>))]
    /\ net' = [net EXCEPT ![c] = Tail(@)]
    /\ lastAct' = Act(c, "onDrawing", NoId, "load", {})
    /\ law' = [law EXCEPT ![c] = Void]
    /\ UNCHANGED <<session, store, history, redoStack, used, acts>>

\* the completion callback of loadFromJSON in the drawing handler: the store
\* is replaced (notifying Change Capture under the gate as it is now) and the
\* gate is reset
DrawingLoaded(c, k) ==
    /\ k \in 1..Len(pending[c])
    /\ pending[c][k].kind = "drawing"
    /\ LET revived == Revive(pending[c][k].snap, used)
           cap == emitRemovedAll(gate[c], store[c]) \o emitAddedAll(gate[c], revived)
       IN /\ store' = [store EXCEPT ![c] = LoadInto(@, revived)]
          /\ used' = used \cup IdsOf(revived)
          /\ net' = Broadcast(c, cap)
          /\ lastAct' = Act(c, "drawingLoaded", NoId, "",
                            FiredAll("removed", gate[c], store[c]) \cup FiredAll("added", gate[c], revived))
    /\ gate' = [gate EXCEPT ![c] = FALSE]
    /\ pending' = [pending EXCEPT ![c] = RemoveAt(@, k)]
    /\ law' = [law EXCEPT ![c] = Void]
    /\ UNCHANGED <<session, history, redoStack, acts>>

\* the load of a drawing Snapshot fails: the completion callback is never
\* called and nothing else of the handler runs
DrawingFailed(c, k) ==
    /\ k \in 1..Len(pending[c])
    /\ pending[c][k].kind = "drawing"
    /\ pending' = [pending EXCEPT ![c] = RemoveAt(@, k)]
    /\ lastAct' = Act(c, "drawingFailed", NoId, "", {})
    /\ UNCHANGED <<session, store, gate, net, history, redoStack, used, acts, law>>

Next ==
    \/ \E c \in Clients : addRectangle(c)
    \/ \E c \in Clients : DrawPath(c)
    \/ \E c \in Clients : ModifyObject(c)
    \/ \E c \in Clients : handleEraserClick(c)
    \/ \E c \in Clients : OnObjectAdded(c)
    \/ \E c \in Clients : \E k \in 1..Len(pending[c]) : OnObjectAddedResume(c, k)
    \/ \E c \in Clients : OnObjectModified(c)
    \/ \E c \in Clients : OnObjectRemoved(c)
    \/ \E c \in Clients : ClickUndo(c)
    \/ \E c \in Clients : \E k \in 1..Len(pending[c]) : UndoLoaded(c, k)
    \/ \E c \in Clients : ClickRedo(c)
    \/ \E c \in Clients : \E k \in 1..Len(pending[c]) : RedoLoaded(c, k)
    \/ \E c \in Clients : ClickClear(c)

Spec == Init /\ [][Next]_vars

\* The event loop runs every queued task: a message that has arrived is
\* handled, a reconstruction or load that was started completes.
Fairness ==
    \A c \in Clients :
        /\ WF_vars(OnObjectAdded(c))
        /\ WF_vars(OnObjectModified(c))
        /\ WF_vars(OnObjectRemoved(c))
        /\ WF_vars(\E k \in 1..Len(pending[c]) : OnObjectAddedResume(c, k))
        /\ WF_vars(\E k \in 1..Len(pending[c]) : UndoLoaded(c, k))
        /\ WF_vars(\E k \in 1..Len(pending[c]) : RedoLoaded(c, k))

LiveSpec == Spec /\ Fairness

\* Runs in which the users only edit the document: no undo, redo or clear.
NextSync ==
    \/ \E c \in Clients : addRectangle(c)
    \/ \E c \in Clients : DrawPath(c)
    \/ \E c \in Clients : ModifyObject(c)
    \/ \E c \in Clients : handleEraserClick(c)
    \/ \E c \in Clients : OnObjectAdded(c)
    \/ \E c \in Clients : \E k \in 1..Len(pending[c]) : OnObjectAddedResume(c, k)
    \/ \E c \in Clients : OnObjectModified(c)
    \/ \E c \in Clients : OnObjectRemoved(c)

SyncSpec == Init /\ [][NextSync]_vars

SyncLiveSpec == SyncSpec /\ Fairness

\* Runs in which the users only add and remove objects.
NextAddRemove ==
    \/ \E c \in Clients : addRectangle(c)
    \/ \E c \in Clients : DrawPath(c)
    \/ \E c \in Clients : handleEraserClick(c)
    \/ \E c \in Clients : OnObjectAdded(c)
    \/ \E c \in Clients : \E k \in 1..Len(pending[c]) : OnObjectAddedResume(c, k)
    \/ \E c \in Clients : OnObjectRemoved(c)

AddRemoveSpec == Init /\ [][NextAddRemove]_vars

\* Runs with a further participant in the room: the clients add objects,
\* the further participant sends commands and objects.
NextPeer ==
    \/ \E c \in Clients : addRectangle(c)
    \/ \E c \in Clients : OnObjectAdded(c)
    \/ \E c \in Clients : \E k \in 1..Len(pending[c]) : OnObjectAddedResume(c, k)
    \/ \E m \in PeerMessages : PeerSends(m)
    \/ \E c \in Clients : Unhandled(c)

PeerSpec == Init /\ [][NextPeer]_vars

\* Runs in which handleUndo and handleRedo are called whether or not the
\* toolbar would allow it.
NextHandler ==
    \/ \E c \in Clients : addRectangle(c)
    \/ \E c \in Clients : OnObjectAdded(c)
    \/ \E c \in Clients : \E k \in 1..Len(pending[c]) : OnObjectAddedResume(c, k)
    \/ \E c \in Clients : CallUndo(c)
    \/ \E c \in Clients : \E k \in 1..Len(pending[c]) : UndoLoaded(c, k)
    \/ \E c \in Clients : CallRedo(c)
    \/ \E c \in Clients : \E k \in 1..Len(pending[c]) : RedoLoaded(c, k)
    \/ \E c \in Clients : Unhandled(c)

HandlerSpec == Init /\ [][NextHandler]_vars

\* Runs in which the clients move between rooms while they add and erase.
NextScope ==
    \/ \E c \in Clients : ChangeRoom(c)
    \/ \E c \in Clients : ServerJoin(c)
    \/ \E c \in Clients : OnDrawing(c)
    \/ \E c \in Clients : \E k \in 1..Len(pending[c]) : DrawingLoaded(c, k)
    \/ \E c \in Clients : \E k \in 1..Len(pending[c]) : DrawingFailed(c, k)
    \/ \E c \in Clients : addRectangle(c)
    \/ \E c \in Clients : handleEraserClick(c)
    \/ \E c \in Clients : OnObjectAdded(c)
    \/ \E c \in Clients : \E k \in 1..Len(pending[c]) : OnObjectAddedResume(c, k)
    \/ \E c \in Clients : OnObjectRemoved(c)

ScopeSpec == InitScope /\ [][NextScope]_vars

\* Runs from the moment the clients ask to join: the server decides, the
\* clients load the room's Snapshot and edit the document.
NextRoom ==
    \/ \E c \in Clients : ServerJoin(c)
    \/ \E c \in Clients : OnAccessDenied(c)
    \/ \E c \in Clients : OnDrawing(c)
    \/ \E c \in Clients : \E k \in 1..Len(pending[c]) : DrawingLoaded(c, k)
    \/ \E c \in Clients : \E k \in 1..Len(pending[c]) : DrawingFailed(c, k)
    \/ \E c \in Clients : addRectangle(c)
    \/ \E c \in Clients : ModifyObject(c)
    \/ \E c \in Clients : handleEraserClick(c)
    \/ \E c \in Clients : OnObjectAdded(c)
    \/ \E c \in Clients : \E k \in 1..Len(pending[c]) : OnObjectAddedResume(c, k)
    \/ \E c \in Clients : OnObjectModified(c)
    \/ \E c \in Clients : OnObjectRemoved(c)

RoomSpec == InitRoom /\ [][NextRoom]_vars

\* The event loop of the join runs: a message that has arrived is handled, a
\* reconstruction that was started completes, a load that was started ends
\* (it completes or it fails).
RoomFairness ==
    \A c \in Clients :
        /\ WF_vars(ServerJoin(c))
        /\ WF_vars(OnAccessDenied(c))
        /\ WF_vars(OnDrawing(c))
        /\ WF_vars(OnObjectAdded(c))
        /\ WF_vars(OnObjectModified(c))
        /\ WF_vars(OnObjectRemoved(c))
        /\ WF_vars(\E k \in 1..Len(pending[c]) : OnObjectAddedResume(c, k))
        /\ WF_vars(\E k \in 1..Len(pending[c]) : DrawingLoaded(c, k) \/ DrawingFailed(c, k))

RoomLiveSpec == RoomSpec /\ RoomFairness

\* ---------------------------------------------------------------- properties
\* the identifier a modify or remove message names
MsgId(m) == IF m.op = "object:removed" THEN m.id ELSE m.obj.id

Quiet == \A c \in Clients : net[c] = <<>> /\ pending[c] = <<>>

RemoteHandlers == {"onObjectAdded", "onObjectAddedResume", "onObjectModified", "onObjectRemoved"}

\* C1: whenever the handling of an object:added message for X has finished
\* at a client, whatever ran between its start and its end, that client's
\* store holds exactly one object with identifier X.
AddIdempotent ==
    lastAct.name = "onObjectAddedResume" => Count(store[lastAct.c], lastAct.id) = 1

\* the second handling of an object:added for X found X in the store and
\* left the one object there
AddIdempotent_Witness ==
    /\ lastAct.name = "onObjectAddedResume"
    /\ lastAct.note = "duplicate"
    /\ Count(store[lastAct.c], lastAct.id) = 1

\* C2: a step that handles object:modified or object:removed for an
\* identifier the client's store does not hold leaves that store's object
\* collection as it was, and the handler runs to its last statement (the
\* gate is reset).
NoOpSafety ==
    [][\A c \in Clients :
          (/\ lastAct'.c = c
           /\ lastAct'.name \in {"onObjectModified", "onObjectRemoved"}
           /\ net[c] # <<>>
           /\ MsgId(Head(net[c])) \notin IdsOf(store[c]))
          => (store'[c] = store[c] /\ net'[c] = Tail(net[c]) /\ gate'[c] = FALSE)]_vars

\* an object:modified was handled for an identifier the store did not hold
NoOpSafety_Witness ==
    /\ lastAct.name = "onObjectModified"
    /\ lastAct.note = "absent"
    /\ lastAct.id \notin IdsOf(store[lastAct.c])

\* C3: no step of a remote-message handler emits an Operation for a store
\* mutation it performed.
NoReEmit ==
    lastAct.name \in RemoteHandlers => \A f \in lastAct.fired : f.sent = 0

\* C4: a notification of the rendering surface that fires while the gate is
\* set makes Change Capture emit no Operation.
EchoSuppression ==
    \A f \in lastAct.fired : f.gate => f.sent = 0

\* a local edit was made while the gate was set and Change Capture emitted
\* nothing for it
EchoSuppression_Witness ==
    /\ lastAct.note = "edit"
    /\ \E f \in lastAct.fired : f.gate /\ f.sent = 0

\* C5: in a run of N local edits, then U <= N undos, then R <= U redos on a
\* fresh canvas, each finished before the next starts and nothing else
\* applied, history holds 1 + N - U + R Snapshots and the document is the
\* one after N - U + R edits.
StackLaw ==
    \A c \in Clients :
        (law[c].ok /\ ~LoadPending(c))
        => /\ Len(history[c]) = 1 + law[c].n - law[c].u + law[c].r
           /\ store[c] = law[c].docs[1 + law[c].n - law[c].u + law[c].r]

\* C6: a step that is a local document edit of a client whose redo stack is
\* not empty leaves that redo stack empty.
EditForeclosesRedo ==
    [][\A c \in Clients :
          (lastAct'.c = c /\ lastAct'.note = "edit" /\ redoStack[c] # <<>>)
          => redoStack'[c] = <<>>]_vars

\* C7: a step of handleClear leaves the client's redo stack empty, its store
\* without objects, and its history equal to the history before the step
\* with one empty-canvas Snapshot appended.
ClearResets ==
    [][\A c \in Clients :
          (lastAct'.c = c /\ lastAct'.name = "handleClear")
          => /\ redoStack'[c] = <<>>
             /\ store'[c] = <<>>
             /\ history'[c] = Append(history[c], EmptySnapshot)]_vars

\* handleClear ran on a client whose redo stack held a Snapshot
ClearResets_Witness ==
    /\ lastAct.name = "handleClear"
    /\ lastAct.note = "redo-dropped"
    /\ redoStack[lastAct.c] = <<>>
    /\ store[lastAct.c] = <<>>
    /\ Len(history[lastAct.c]) >= 2

\* C8: every client's history holds at least one Snapshot.
HistoryNeverEmpty ==
    \A c \in Clients : Len(history[c]) >= 1

\* C9: after A adds a rectangle X, B's store eventually holds exactly one
\* object with identifier X; after B erases an object X, A's store
\* eventually holds no object with identifier X.
EndToEnd ==
    \A i \in Ids :
        /\ (lastAct.c = "A" /\ lastAct.name = "addRectangle" /\ lastAct.id = i)
               ~> (Count(store["B"], i) = 1)
        /\ (lastAct.c = "B" /\ lastAct.name = "handleEraserClick" /\ lastAct.id = i)
               ~> (Count(store["A"], i) = 0)

\* A, on a fresh canvas, added the one rectangle of the run, B received and
\* erased it, and A has just removed it on B's object:removed
EndToEnd_Witness ==
    /\ lastAct.c = "A"
    /\ lastAct.name = "onObjectRemoved"
    /\ lastAct.note = "found"
    /\ \E f \in lastAct.fired : f.type = "rect"
    /\ acts = 2
    /\ Cardinality(used) = 1
    /\ history["B"] = <<EmptySnapshot>> /\ redoStack["B"] = <<>> /\ ~law["B"].ok
    /\ store["A"] = <<>> /\ store["B"] = <<>>

\* C10: once every message is delivered and every reconstruction has
\* finished, all clients' stores hold the same set of identifiers.
Mirrored ==
    Quiet => \A c, d \in Clients : IdsOf(store[c]) = IdsOf(store[d])

\* the command each history handler stands for
CommandOf(name) ==
    IF name = "handleUndo" THEN "undo" ELSE IF name = "handleRedo" THEN "redo" ELSE "clear"

CommandCount(q) == Cardinality({k \in 1..Len(q) : q[k].op = "canvas-action"})

HistoryHandlers == {"handleUndo", "handleRedo", "handleClear"}

\* C11: a step in which a user's toolbar click runs handleUndo, handleRedo
\* or handleClear sends exactly one canvas-action message, carrying the
\* matching action and no Snapshot, towards every other participant.
CommandSent ==
    [][\A c \in Clients :
          (lastAct'.c = c /\ lastAct'.name \in HistoryHandlers /\ acts' = acts + 1)
          => \A d \in Clients \ {c} :
                /\ CommandCount(net'[d]) = CommandCount(net[d]) + 1
                /\ net'[d] # <<>>
                /\ net'[d][Len(net'[d])] = ActionMsg(CommandOf(lastAct'.name))]_vars

\* C12: a step in which a client takes a canvas-action message off its
\* connection applies the command to the client: clear empties the store,
\* appends the cleared Snapshot to history and empties redo; undo (with more
\* than one Snapshot) and redo (with a Snapshot to redo) set the gate and
\* start the load; and no canvas-action is sent in that step.
CommandApplied ==
    [][\A c \in Clients :
          (/\ net[c] # <<>>
           /\ Head(net[c]).op = "canvas-action"
           /\ lastAct'.c = c
           /\ net'[c] = Tail(net[c]))
          => LET a == Head(net[c]).action
             IN /\ a = "clear"
                     => /\ store'[c] = <<>>
                        /\ history'[c] = Append(history[c], EmptySnapshot)
                        /\ redoStack'[c] = <<>>
                /\ (a = "undo" /\ Len(history[c]) > 1)
                     => /\ gate'[c]
                        /\ Len(pending'[c]) = Len(pending[c]) + 1
                        /\ pending'[c][Len(pending'[c])].kind = "undo"
                /\ (a = "redo" /\ Len(redoStack[c]) > 0)
                     => /\ gate'[c]
                        /\ Len(pending'[c]) = Len(pending[c]) + 1
                        /\ pending'[c][Len(pending'[c])].kind = "redo"
                /\ \A d \in Clients : CommandCount(net'[d]) <= CommandCount(net[d])]_vars

\* some listener or the discard of the socket can take the oldest message
\* towards c
CanProcess(c) ==
    \/ ENABLED OnObjectAdded(c)
    \/ ENABLED OnObjectModified(c)
    \/ ENABLED OnObjectRemoved(c)
    \/ ENABLED Unhandled(c)

\* C16: when the handling of an object:added message has finished at a
\* client (the object was added, was a duplicate, had an unknown type tag,
\* or its reconstruction threw), the client's gate is false, and a message
\* still waiting on the connection can be processed.
GateReleased ==
    (\/ lastAct.name = "onObjectAddedResume"
     \/ (lastAct.name = "onObjectAdded" /\ lastAct.note = "unknown"))
    => /\ gate[lastAct.c] = FALSE
       /\ net[lastAct.c] # <<>> => CanProcess(lastAct.c)

\* a reconstruction threw while a later message was waiting, and the gate
\* is released
GateReleased_Witness ==
    /\ lastAct.name = "onObjectAddedResume"
    /\ lastAct.note = "threw"
    /\ gate[lastAct.c] = FALSE
    /\ net[lastAct.c] # <<>>

\* C13: no step of a participant that joined with role viewer (an edit, a
\* handler that emits, the decision on its join) puts a message on another
\* participant's connection, so nothing a viewer sends is ever applied to
\* another participant's store.
ViewerRejected ==
    [][\A c \in Clients :
          (session[c].role = "viewer" /\ lastAct'.c = c)
          => \A d \in Clients \ {c} : net'[d] = net[d]]_vars

\* a member with role viewer has edited its canvas, its client emitted an
\* Operation for the edit, and the other member's connection carries nothing
ViewerRejected_Witness ==
    /\ lastAct.note = "edit"
    /\ lastAct.c \in Members
    /\ session[lastAct.c].role = "viewer"
    /\ \E f \in lastAct.fired : f.sent > 0
    /\ \A d \in Members \ {lastAct.c} : net[d] = <<>>
    /\ Members = Clients

\* C14: the step that decides a join-room carrying a password other than the
\* private room's stored password sends access-denied to the joining
\* connection and leaves the room's set of members as it was.
AccessControl ==
    [][\A c \in Clients :
          (/\ session[c].status = "pending"
           /\ session[c].password # RoomPassword
           /\ lastAct'.c = c
           /\ lastAct'.name = "serverJoin")
          => /\ Members' = Members
             /\ net'[c] = Append(net[c], DeniedMsg)]_vars

\* the client that supplied a wrong password has been shown the denial, is
\* not a member, and what it drew afterwards reached nobody
AccessControl_Witness ==
    /\ session["B"].status = "rejected"
    /\ session["B"].password # RoomPassword
    /\ lastAct.c = "B"
    /\ lastAct.note = "edit"
    /\ store["B"] # <<>>
    /\ net["B"] = <<>>
    /\ net["A"] = <<>>
    /\ Members = {"A"}

\* C15: the step that completes the restore of a drawing Snapshot leaves the
\* client's store holding exactly the Snapshot's objects, in order and with
\* their identifiers (what the store held before is dropped): the restored
\* store serialises to the Snapshot that was transferred.
JoinFidelity ==
    [][\A c \in Clients :
          (lastAct'.c = c /\ lastAct'.name = "drawingLoaded")
          => \E k \in 1..Len(pending[c]) :
                /\ pending[c][k].kind = "drawing"
                /\ pending'[c] = RemoveAt(pending[c], k)
                /\ SnapshotOf(store'[c]) = pending[c][k].snap
                /\ store'[c] = [j \in 1..Len(pending[c][k].snap) |-> fromObject(pending[c][k].snap[j])]]_vars

\* B had drawn an object of its own before the Snapshot of A's one-object
\* store was restored: B's object is gone and B's store equals A's
JoinFidelity_Witness ==
    /\ lastAct.c = "B"
    /\ lastAct.name = "drawingLoaded"
    /\ \E f \in lastAct.fired : f.ev = "removed"
    /\ \E f \in lastAct.fired : f.ev = "added"
    /\ Len(store["B"]) = 1
    /\ store["B"] = store["A"]

\* C17: in every reachable state, a client with an object reconstruction or
\* a Snapshot restore started and not yet finished has its gate set.
GateWhilePending ==
    \A c \in Clients : pending[c] # <<>> => gate[c] = TRUE

\* C18: whenever a client has set its gate for the restore of a Snapshot
\* (here: the drawing handler has started a load), the gate is eventually
\* false again, whether the load completes or fails.
RestoreReleases ==
    \A c \in Clients :
        (lastAct.c = c /\ lastAct.name = "onDrawing") ~> (gate[c] = FALSE)

\* the undo and redo loads a client has started and not finished
LoadsInFlight(c) == {k \in 1..Len(pending[c]) : pending[c][k].kind \in {"undo", "redo"}}

\* C19: the step that completes an undo, being the client's only undo or
\* redo in flight, removes the newest Snapshot from history, leaves the store
\* holding the objects of the new top of history, fires every notification
\* of the restore with the gate set and emits no Operation for it, and puts
\* the removed Snapshot in front of the previous redo stack.
UndoStep ==
    [][\A c \in Clients :
          (/\ lastAct'.c = c
           /\ lastAct'.name = "undoLoaded"
           /\ Cardinality(LoadsInFlight(c)) = 1
           /\ Len(history[c]) > 1)
          => /\ history'[c] = DropLast(history[c])
             /\ toJSON(store'[c]) = history'[c][Len(history'[c])]
             /\ \A f \in lastAct'.fired : f.gate /\ f.sent = 0
             /\ redoStack'[c] = <<history[c][Len(history[c])]>> \o redoStack[c]]_vars

\* C20: a call of handleUndo while history holds at most one Snapshot, and a
\* call of handleRedo while the redo stack is empty, leave the client's
\* store, history and redo stack as they were and start no restore that
\* could change them later (no load is pending that was not, the gate is as
\* it was).
GuardedNoop ==
    [][\A c \in Clients :
          (/\ lastAct'.c = c
           /\ \/ (lastAct'.name = "handleUndo" /\ Len(history[c]) <= 1)
              \/ (lastAct'.name = "handleRedo" /\ Len(redoStack[c]) = 0))
          => /\ store'[c] = store[c]
             /\ history'[c] = history[c]
             /\ redoStack'[c] = redoStack[c]
             /\ pending'[c] = pending[c]
             /\ gate'[c] = gate[c]]_vars

\* handleRedo was called on a client with an object in its store and an
\* empty redo stack, and did nothing
GuardedNoop_Witness ==
    /\ lastAct.name = "handleRedo"
    /\ lastAct.note = "guarded"
    /\ store[lastAct.c] # <<>>
    /\ redoStack[lastAct.c] = <<>>
    /\ pending[lastAct.c] = <<>>
    /\ gate[lastAct.c] = FALSE

\* C21: in every run of local edits with a fair event loop, the clients
\* eventually stay for ever in states with no message in flight and no
\* reconstruction pending (so only finitely many Operations are emitted).
NoReplicationLoop == <>[]Quiet

\* every edit of the run is made, an object:added that a handler sent back
\* to the room has been handled as a duplicate, and nothing is in flight
NoReplicationLoop_Witness ==
    /\ Quiet
    /\ acts = MaxActions
    /\ lastAct.name = "onObjectAddedResume"
    /\ lastAct.note = "duplicate"
    /\ Cardinality(used) = 1
    /\ \A c \in Clients : Len(store[c]) = 1

\* C22: every message a step of client c puts on another participant's
\* connection carries the roomId of the room c is mounted on in that step,
\* also after c's roomId has changed with the eraser selected.
RoomScoped ==
    [][\A c \in Clients : \A d \in Clients \ {c} :
          lastAct'.c = c
          => \A k \in (Len(net[d]) + 1)..Len(net'[d]) :
                net'[d][k].roomId = session'[c].roomId]_vars

\* C23: a step in which a client whose gate is not set adds one toolbar
\* shape or erases one object puts exactly one Operation on the connection
\* of every other participant.
OneOperationPerEdit ==
    [][\A c \in Clients :
          (/\ lastAct'.c = c
           /\ lastAct'.name \in {"addRectangle", "handleEraserClick"}
           /\ gate[c] = FALSE)
          => \A d \in Clients \ {c} : Len(net'[d]) = Len(net[d]) + 1]_vars

\* the object:added messages on their way
AddedInFlight ==
    UNION {{net[c][k] : k \in {j \in 1..Len(net[c]) : net[c][j].op = "object:added"}} : c \in Clients}

\* C24: in every reachable state no two objects of a client's store have the
\* same identifier, every object of a store has an identifier, and every
\* object:added on its way carries an identifier.
UniqueIds ==
    /\ \A c \in Clients : \A j, k \in 1..Len(store[c]) : store[c][j].id = store[c][k].id => j = k
    /\ \A c \in Clients : NoId \notin IdsOf(store[c])
    /\ \A m \in AddedInFlight : m.obj.id # NoId

\* a client holds two objects with different identifiers, the second one a
\* free-drawn path it has just rebuilt from a peer's object:added
UniqueIds_Witness ==
    /\ lastAct.name = "onObjectAddedResume"
    /\ lastAct.note = "new"
    /\ Len(store[lastAct.c]) = 2
    /\ store[lastAct.c][1].id # store[lastAct.c][2].id
    /\ store[lastAct.c][2].type = "path"
    /\ store[lastAct.c][2].id = lastAct.id

====
